---- MODULE Spec2Model ----
(***************************************************************************)
(* AbstractCheckRunner (packages/cli/src/services/abstract-check-runner.ts) *)
(* as a state machine.                                                     *)
(*                                                                         *)
(* JavaScript runs one callback at a time.  Every action below is one     *)
(* uninterrupted piece of execution: a piece of run() between two awaits,  *)
(* the MQTT message callback, a timer callback, the resumption of          *)
(* processMessage after an awaited artifact fetch, or the p-queue          *)
(* bookkeeping that follows a settled job.  The synchronous tail of run()  *)
(* after scheduleChecks() returns (lines 70-84) is cut into three actions  *)
(* (ScheduleOk, QueueStart, EmitRunStarted); no other action is enabled    *)
(* between them, so the cut adds no interleaving.                          *)
(***************************************************************************)
EXTENDS Integers, Sequences, FiniteSets, TLC

\* ---------------------------------------------------------------- bounds
\* Check identifiers the dispatch hook can hand out are 1..NumCheckIds.
NumCheckIds == 2
\* Messages the transport delivers during one run.
MaxMessages == 2

\* ------------------------------------------------------------- constants
\* new PQueue({ autoStart: false, concurrency: 1 })
ConcurrencyTwo == 1 + 1
Concurrency == 1
AutoStartTrue == TRUE
AutoStart == FALSE

CheckIds == 1..NumCheckIds

VARIABLES
  pc,                 \* position of run()
  socketClient,       \* "null" | "open" | "ended"
  endCalls,           \* number of socketClient.end() calls
  onMessage,          \* the 'message' callback is registered (line 97)
  subscribed,         \* subscribe() has resolved (line 105)
  scheduleCalls,      \* number of scheduleChecks() calls (line 69)
  checksSet,          \* this.checks is defined
  checks,             \* keys of this.checks
  timeouts,           \* keys of this.timeouts
  armed,              \* check ids whose Node timer is scheduled and not cleared
  verbose,            \* this.verbose
  queue,              \* p-queue: jobs waiting, oldest first
  isPaused,           \* p-queue: _isPaused
  active,             \* p-queue: the job being run and where it is suspended
  listening,          \* allChecksFinished registered its CHECK_FINISHED listener
  numChecks,          \* allChecksFinished: numChecks
  finishedCheckCount, \* allChecksFinished: finishedCheckCount
  resolved,           \* the allChecksFinished promise is resolved
  events,             \* every event emitted so far, in order
  nArrived,           \* messages delivered so far
  nStarted,           \* processMessage invocations begun so far
  unhandled,          \* a job promise rejected and nothing handles it
  crashed,            \* the process died of the unhandled rejection
  fetchFailed,        \* check ids whose run-end handling saw an artifact fetch fail
  runEndInTime        \* check ids whose run-end arrived while their timer was pending

vars == << pc, socketClient, endCalls, onMessage, subscribed, scheduleCalls,
           checksSet, checks, timeouts, armed, verbose, queue, isPaused, active,
           listening, numChecks, finishedCheckCount, resolved, events,
           nArrived, nStarted, unhandled, crashed, fetchFailed, runEndInTime >>

\* --------------------------------------------------------------- events
Ev(type, id, cause) == [type |-> type, id |-> id, cause |-> cause]
RUN_STARTED == Ev("RUN_STARTED", 0, "-")
RUN_FINISHED == Ev("RUN_FINISHED", 0, "-")
ERROR == Ev("ERROR", 0, "-")
CHECK_INPROGRESS(id) == Ev("CHECK_INPROGRESS", id, "-")
CHECK_SUCCESSFUL(id) == Ev("CHECK_SUCCESSFUL", id, "run-end")
CHECK_FAILED(id, cause) == Ev("CHECK_FAILED", id, cause)
CHECK_FINISHED(id) == Ev("CHECK_FINISHED", id, "-")

\* ------------------------------------------------------------- messages
\* The part of message.result that processMessage reads.
Result(hasFailures, logPath, checkRunDataPath, traces, videos) ==
  [hasFailures |-> hasFailures, logPath |-> logPath,
   checkRunDataPath |-> checkRunDataPath,
   playwrightTestTraceFiles |-> traces, playwrightTestVideoFiles |-> videos]
NoResult == Result(FALSE, FALSE, FALSE, FALSE, FALSE)
Results ==
  { NoResult,                                  \* no asset referenced
    Result(FALSE, TRUE, FALSE, FALSE, FALSE),  \* passing, with a log
    Result(TRUE, TRUE, TRUE, TRUE, TRUE) }     \* failing, with every asset
Msg(id, sub, result) == [id |-> id, sub |-> sub, result |-> result]
Messages ==
  { Msg(id, sub, NoResult) : id \in CheckIds, sub \in {"run-start", "error"} }
    \cup { Msg(id, "run-end", r) : id \in CheckIds, r \in Results }
\* The job queue.add makes of the n-th message delivered (line 103).
Job(m, n) == [id |-> m.id, sub |-> m.sub, result |-> m.result, seq |-> n]
NoMsg == Job(Msg(0, "none", NoResult), 0)

\* ------------------------------------------- the state handlers work on
Cur == [timeouts |-> timeouts, armed |-> armed, events |-> events,
        finishedCheckCount |-> finishedCheckCount, resolved |-> resolved]

Apply(h) ==
  /\ timeouts' = h.timeouts
  /\ armed' = h.armed
  /\ events' = h.events
  /\ finishedCheckCount' = h.finishedCheckCount
  /\ resolved' = h.resolved

\* allChecksFinished, line 166: finishedCheckCount === numChecks
CountReachedEarly(count, total) == count + 1 >= total
CountReached(count, total) == count = total

\* this.emit(ev); the only listener the runner itself registers is the one of
\* allChecksFinished (lines 164-167).
Emit(h, ev) ==
  LET h1 == [h EXCEPT !.events = Append(@, ev)]
  IN IF ev.type = "CHECK_FINISHED" /\ listening
       THEN [h1 EXCEPT !.finishedCheckCount = @ + 1,
                       !.resolved = @ \/ CountReached(h.finishedCheckCount + 1, numChecks)]
       ELSE h1

\* disableTimeout, lines 188-192
DisableTimeoutKeepTimer(h, id) == [h EXCEPT !.timeouts = @ \ {id}]
DisableTimeoutKeepEntry(h, id) == [h EXCEPT !.armed = @ \ {id}]
DisableTimeout(h, id) ==
  [h EXCEPT !.armed = @ \ {id}, !.timeouts = @ \ {id}]

\* processMessage, line 109: this.timeouts.has(checkRunId)
PendingAlways(h, id) == TRUE
PendingIfDispatched(h, id) == id \in checks
Pending(h, id) == id \in h.timeouts

\* The awaits of the run-end branch, in program order (lines 126-143).
FetchStages == << "logs", "data", "traces", "videos" >>
StageNo(stage) == CHOOSE i \in 1..Len(FetchStages) : FetchStages[i] = stage

\* The condition guarding each await (lines 126, 129, 134-135, 139).
Needs(r, i) ==
  CASE i = 1 -> r.logPath /\ (verbose \/ r.hasFailures)
    [] i = 2 -> r.checkRunDataPath /\ (verbose \/ r.hasFailures)
    [] i = 3 -> r.hasFailures /\ r.playwrightTestTraceFiles
    [] i = 4 -> r.hasFailures /\ r.playwrightTestVideoFiles

\* Lines 148-149.
ReportSuccessSwapped(h, id) == Emit(Emit(h, CHECK_FINISHED(id)), CHECK_SUCCESSFUL(id))
ReportSuccess(h, id) == Emit(Emit(h, CHECK_SUCCESSFUL(id)), CHECK_FINISHED(id))

\* The run-end branch from just after await number i (0: from line 118) to the
\* next await it reaches, or to its end.
RunEndFrom(h, m, i) ==
  LET later == { j \in (i + 1)..Len(FetchStages) : Needs(m.result, j) }
  IN IF later = {}
       THEN [h |-> ReportSuccess(h, m.id), stage |-> "settled", rejected |-> FALSE]
       ELSE [h |-> h,
             stage |-> FetchStages[CHOOSE j \in later : \A k \in later : j <= k],
             rejected |-> FALSE]

\* (processMessage with a run-start branch that also cancels the timer.)
ProcessMessageStartCancels(h, m) ==
  IF ~Pending(h, m.id)
    THEN [h |-> h, stage |-> "settled", rejected |-> FALSE]
    ELSE CASE m.sub = "run-start" ->
                [h |-> Emit(DisableTimeout(h, m.id), CHECK_INPROGRESS(m.id)),
                 stage |-> "settled", rejected |-> FALSE]
           [] m.sub = "run-end" -> RunEndFrom(DisableTimeout(h, m.id), m, 0)
           [] m.sub = "error" ->
                [h |-> Emit(Emit(DisableTimeout(h, m.id), CHECK_FAILED(m.id, "error")),
                            CHECK_FINISHED(m.id)),
                 stage |-> "settled", rejected |-> FALSE]
           [] OTHER -> [h |-> h, stage |-> "settled", rejected |-> FALSE]

\* processMessage from its call to its first await or its end (lines 108-155).
ProcessMessage(h, m) ==
  IF ~Pending(h, m.id)
    THEN [h |-> h, stage |-> "settled", rejected |-> FALSE]
    ELSE CASE m.sub = "run-start" ->
                [h |-> Emit(h, CHECK_INPROGRESS(m.id)), stage |-> "settled",
                 rejected |-> FALSE]
           [] m.sub = "run-end" -> RunEndFrom(DisableTimeout(h, m.id), m, 0)
           [] m.sub = "error" ->
                [h |-> Emit(Emit(DisableTimeout(h, m.id), CHECK_FAILED(m.id, "error")),
                            CHECK_FINISHED(m.id)),
                 stage |-> "settled", rejected |-> FALSE]
           [] OTHER -> [h |-> h, stage |-> "settled", rejected |-> FALSE]

\* processMessage resumed when the fetch it awaits at `stage` settles.  Only the
\* two asset-link awaits are inside the try/catch (lines 133-146); a rejected
\* getLogs or getCheckRunData rejects processMessage itself.
ResumeSwallowAll(h, m, stage, ok) ==
  IF ok THEN RunEndFrom(h, m, StageNo(stage))
        ELSE RunEndFrom(h, m, Len(FetchStages))
Resume(h, m, stage, ok) ==
  IF ok
    THEN RunEndFrom(h, m, StageNo(stage))
    ELSE IF stage \in {"traces", "videos"}
           THEN RunEndFrom(h, m, Len(FetchStages))
           ELSE [h |-> h, stage |-> "settled", rejected |-> TRUE]

\* The timer callback of setAllTimeouts, lines 173-177.
OnTimeoutKeepEntry(h, id) ==
  Emit(Emit(h, CHECK_FAILED(id, "timeout")), CHECK_FINISHED(id))
OnTimeout(h, id) ==
  Emit(Emit([h EXCEPT !.timeouts = @ \ {id}, !.armed = @ \ {id}],
            CHECK_FAILED(id, "timeout")),
       CHECK_FINISHED(id))

\* disableAllTimeouts, lines 181-186.  Every entry of this.timeouts is keyed
\* by a check of this.checks, so disabling each check's timer empties both.
DisableAllTimeouts(h) ==
  IF ~checksSet THEN h
  ELSE [h EXCEPT !.armed = @ \ checks, !.timeouts = @ \ checks]

\* The catch block of run(), lines 86-88.
RunCatchThenFinish(h) == Emit(Emit(DisableAllTimeouts(h), ERROR), RUN_FINISHED)
RunCatch(h) == Emit(DisableAllTimeouts(h), ERROR)

\* The finally block of run(), lines 89-93: where run() goes after try/catch
\* with the socket `sock`: to socketClient.end() when it holds one.
FinallySkipsEnd(sock) == "done"
Finally(sock) == IF sock = "null" THEN "done" ELSE "close"

\* ---------------------------------------------------------------- p-queue
Idle == [msg |-> NoMsg, stage |-> "idle"]
\* _pendingCount of a queue whose job slot holds `job`.
PendingCount(job) == IF job.stage = "idle" THEN 0 ELSE 1

\* _tryToStartAnother with the waiting jobs q, the pause flag p and the job
\* slot `job`: the next job is dequeued and called at once, so processMessage
\* runs to its first await inside the caller (queue.add at line 103,
\* queue.start at line 81, or _next after a settled job).
TryToStartAnother(h, q, p, job) ==
  IF q # << >> /\ ~p /\ PendingCount(job) < Concurrency
    THEN LET r == ProcessMessage(h, Head(q))
         IN [h |-> r.h, queue |-> Tail(q),
             active |-> [msg |-> Head(q), stage |-> r.stage], started |-> 1]
    ELSE [h |-> h, queue |-> q, active |-> job, started |-> 0]

ApplyQueue(t) ==
  /\ Apply(t.h)
  /\ queue' = t.queue
  /\ active' = t.active
  /\ nStarted' = nStarted + t.started

\* No callback is running, no microtask is pending and the process is alive:
\* the event loop can take the next timer, socket or fetch callback.
InSyncTail == pc \in {"queueStart", "emitStarted"}
LoopIdle == ~crashed /\ ~unhandled /\ ~InSyncTail /\ active.stage # "settled"

\* ------------------------------------------------------------------ Init
\* The state after the constructor (lines 44-55), at the call of run().
Init ==
  /\ pc = "connect"
  /\ socketClient = "null"
  /\ endCalls = 0
  /\ onMessage = FALSE
  /\ subscribed = FALSE
  /\ scheduleCalls = 0
  /\ checksSet = FALSE
  /\ checks = {}
  /\ timeouts = {}
  /\ armed = {}
  /\ verbose \in BOOLEAN
  /\ queue = << >>
  /\ isPaused = ~AutoStart
  /\ active = Idle
  /\ listening = FALSE
  /\ numChecks = 0
  /\ finishedCheckCount = 0
  /\ resolved = FALSE
  /\ events = << >>
  /\ nArrived = 0
  /\ nStarted = 0
  /\ unhandled = FALSE
  /\ crashed = FALSE
  /\ fetchFailed = {}
  /\ runEndInTime = {}

\* ----------------------------------------------------------------- run()
\* (ConnectOk with lines 67 and 69 swapped: the dispatch before the subscription.)
ConnectOkDispatchFirst ==
  /\ pc = "connect" /\ ~crashed
  /\ pc' = "schedule"
  /\ socketClient' = "open"
  /\ scheduleCalls' = scheduleCalls + 1
  /\ UNCHANGED << endCalls, onMessage, subscribed, checksSet, checks, timeouts,
                  armed, verbose, queue, isPaused, active, listening, numChecks,
                  finishedCheckCount, resolved, events, nArrived, nStarted,
                  unhandled, crashed, fetchFailed, runEndInTime >>

\* Line 63 resolves; configureResultListener registers the message callback
\* (line 97) and sends the subscription (line 105).
ConnectOk ==
  /\ pc = "connect" /\ LoopIdle
  /\ pc' = "subscribe"
  /\ socketClient' = "open"
  /\ onMessage' = TRUE
  /\ UNCHANGED << endCalls, subscribed, scheduleCalls, checksSet, checks, timeouts,
                  armed, verbose, queue, isPaused, active, listening, numChecks,
                  finishedCheckCount, resolved, events, nArrived, nStarted,
                  unhandled, crashed, fetchFailed, runEndInTime >>

\* Line 63 rejects: catch (lines 86-88), and finally finds socketClient null.
ConnectFail ==
  /\ pc = "connect" /\ LoopIdle
  /\ pc' = Finally(socketClient)
  /\ Apply(RunCatch(Cur))
  /\ UNCHANGED << socketClient, endCalls, onMessage, subscribed, scheduleCalls,
                  checksSet, checks, verbose, queue, isPaused, active, listening,
                  numChecks, nArrived, nStarted, unhandled, crashed, fetchFailed,
                  runEndInTime >>

\* Line 105 resolves and run() calls scheduleChecks (line 69).
SubscribeOk ==
  /\ pc = "subscribe" /\ LoopIdle
  /\ pc' = "schedule"
  /\ subscribed' = TRUE
  /\ scheduleCalls' = scheduleCalls + 1
  /\ UNCHANGED << socketClient, endCalls, onMessage, checksSet, checks, timeouts,
                  armed, verbose, queue, isPaused, active, listening, numChecks,
                  finishedCheckCount, resolved, events, nArrived, nStarted,
                  unhandled, crashed, fetchFailed, runEndInTime >>

\* Line 105 rejects: catch, then finally has a socket to end.
SubscribeFail ==
  /\ pc = "subscribe" /\ LoopIdle
  /\ pc' = Finally(socketClient)
  /\ Apply(RunCatch(Cur))
  /\ UNCHANGED << socketClient, endCalls, onMessage, subscribed, scheduleCalls,
                  checksSet, checks, verbose, queue, isPaused, active, listening,
                  numChecks, nArrived, nStarted, unhandled, crashed, fetchFailed,
                  runEndInTime >>

\* scheduleChecks resolves with the checks 1..n (lines 69-70); setAllTimeouts
\* arms one timer per check (lines 76, 171-179); allChecksFinished takes the
\* population and, unless it is empty, registers its listener (lines 79, 157-169).
ScheduleOk(n) ==
  /\ pc = "schedule" /\ LoopIdle
  /\ pc' = "queueStart"
  /\ checksSet' = TRUE
  /\ checks' = 1..n
  /\ timeouts' = timeouts \cup (1..n)
  /\ armed' = armed \cup (1..n)
  /\ numChecks' = n
  /\ listening' = (n # 0)
  /\ resolved' = (n = 0)
  /\ UNCHANGED << socketClient, endCalls, onMessage, subscribed, scheduleCalls,
                  verbose, queue, isPaused, active, finishedCheckCount, events,
                  nArrived, nStarted, unhandled, crashed, fetchFailed, runEndInTime >>

\* scheduleChecks rejects: catch, then finally ends the socket.
ScheduleFail ==
  /\ pc = "schedule" /\ LoopIdle
  /\ pc' = Finally(socketClient)
  /\ Apply(RunCatch(Cur))
  /\ UNCHANGED << socketClient, endCalls, onMessage, subscribed, scheduleCalls,
                  checksSet, checks, verbose, queue, isPaused, active, listening,
                  numChecks, nArrived, nStarted, unhandled, crashed, fetchFailed,
                  runEndInTime >>

\* Line 81: queue.start() clears the pause flag and runs _processQueue; with
\* concurrency 1 that starts the oldest waiting job, inside this call.
QueueStart ==
  /\ pc = "queueStart" /\ ~crashed
  /\ pc' = "emitStarted"
  /\ isPaused' = FALSE
  /\ ApplyQueue(TryToStartAnother(Cur, queue, FALSE, active))
  /\ UNCHANGED << socketClient, endCalls, onMessage, subscribed, scheduleCalls,
                  checksSet, checks, verbose, listening, numChecks, nArrived,
                  unhandled, crashed, fetchFailed, runEndInTime >>

\* Line 82, then run() suspends on line 84.
EmitRunStarted ==
  /\ pc = "emitStarted" /\ ~crashed
  /\ pc' = "await"
  /\ Apply(Emit(Cur, RUN_STARTED))
  /\ UNCHANGED << socketClient, endCalls, onMessage, subscribed, scheduleCalls,
                  checksSet, checks, verbose, queue, isPaused, active, listening,
                  numChecks, nArrived, nStarted, unhandled, crashed, fetchFailed,
                  runEndInTime >>

\* Line 85: run() resumes once the allChecksFinished promise is resolved.
RunFinished ==
  /\ pc = "await" /\ resolved /\ ~crashed
  /\ pc' = Finally(socketClient)
  /\ Apply(Emit(Cur, RUN_FINISHED))
  /\ UNCHANGED << socketClient, endCalls, onMessage, subscribed, scheduleCalls,
                  checksSet, checks, verbose, queue, isPaused, active, listening,
                  numChecks, nArrived, nStarted, unhandled, crashed, fetchFailed,
                  runEndInTime >>

\* Lines 89-93: the finally block ends the socket it holds.
SocketEnd ==
  /\ pc = "close" /\ ~crashed
  /\ pc' = "done"
  /\ socketClient' = "ended"
  /\ endCalls' = endCalls + 1
  /\ UNCHANGED << onMessage, subscribed, scheduleCalls, checksSet, checks, timeouts,
                  armed, verbose, queue, isPaused, active, listening, numChecks,
                  finishedCheckCount, resolved, events, nArrived, nStarted,
                  unhandled, crashed, fetchFailed, runEndInTime >>

\* ------------------------------------------------------------- callbacks
\* The message callback (lines 97-104): queue.add enqueues the job and tries
\* to start one at once.
MessageArrive(m) ==
  /\ LoopIdle
  /\ onMessage /\ subscribed /\ socketClient = "open"
  /\ nArrived < MaxMessages
  /\ nArrived' = nArrived + 1
  /\ runEndInTime' = IF m.sub = "run-end" /\ m.id \in timeouts
                       THEN runEndInTime \cup {m.id} ELSE runEndInTime
  /\ ApplyQueue(TryToStartAnother(Cur, Append(queue, Job(m, nArrived + 1)),
                                  isPaused, active))
  /\ UNCHANGED << pc, socketClient, endCalls, onMessage, subscribed, scheduleCalls,
                  checksSet, checks, verbose, isPaused, listening, numChecks,
                  unhandled, crashed, fetchFailed >>

\* The fetch the running job awaits settles and processMessage resumes.
FetchSettles(ok) ==
  /\ LoopIdle
  /\ active.stage \notin {"idle", "settled"}
  /\ LET r == Resume(Cur, active.msg, active.stage, ok)
     IN /\ Apply(r.h)
        /\ active' = [active EXCEPT !.stage = r.stage]
        /\ unhandled' = r.rejected
  /\ fetchFailed' = IF ok THEN fetchFailed ELSE fetchFailed \cup {active.msg.id}
  /\ UNCHANGED << pc, socketClient, endCalls, onMessage, subscribed, scheduleCalls,
                  checksSet, checks, verbose, queue, isPaused, listening, numChecks,
                  nArrived, nStarted, crashed, runEndInTime >>

\* p-queue after a job settled: _next() frees the slot and tries to start the
\* next waiting job.  It runs as a microtask, before any timer or socket callback.
QueueNext ==
  /\ ~crashed /\ ~InSyncTail
  /\ active.stage = "settled"
  /\ ApplyQueue(TryToStartAnother(Cur, queue, isPaused, Idle))
  /\ UNCHANGED << pc, socketClient, endCalls, onMessage, subscribed, scheduleCalls,
                  checksSet, checks, verbose, isPaused, listening, numChecks,
                  nArrived, unhandled, crashed, fetchFailed, runEndInTime >>

\* A timer set by setAllTimeouts fires (lines 173-177).
TimerExpire(id) ==
  /\ LoopIdle
  /\ id \in armed
  /\ Apply(OnTimeout(Cur, id))
  /\ UNCHANGED << pc, socketClient, endCalls, onMessage, subscribed, scheduleCalls,
                  checksSet, checks, verbose, queue, isPaused, active, listening,
                  numChecks, nArrived, nStarted, unhandled, crashed, fetchFailed,
                  runEndInTime >>

\* Nothing handles the promise queue.add returns (line 103).  When it rejects,
\* Node reports an unhandled rejection once the microtasks have drained: the
\* process dies of it, or, where the host installed a handler or runs with
\* --unhandled-rejections=warn, goes on.
RejectionKills ==
  /\ unhandled /\ ~crashed /\ ~InSyncTail /\ active.stage # "settled"
  /\ crashed' = TRUE
  /\ unhandled' = FALSE
  /\ UNCHANGED << pc, socketClient, endCalls, onMessage, subscribed, scheduleCalls,
                  checksSet, checks, timeouts, armed, verbose, queue, isPaused, active,
                  listening, numChecks, finishedCheckCount, resolved, events,
                  nArrived, nStarted, fetchFailed, runEndInTime >>

RejectionIgnored ==
  /\ unhandled /\ ~crashed /\ ~InSyncTail /\ active.stage # "settled"
  /\ unhandled' = FALSE
  /\ UNCHANGED << pc, socketClient, endCalls, onMessage, subscribed, scheduleCalls,
                  checksSet, checks, timeouts, armed, verbose, queue, isPaused, active,
                  listening, numChecks, finishedCheckCount, resolved, events,
                  nArrived, nStarted, crashed, fetchFailed, runEndInTime >>

Next ==
  \/ ConnectOk
  \/ ConnectFail
  \/ SubscribeOk
  \/ SubscribeFail
  \/ \E n \in 0..NumCheckIds : ScheduleOk(n)
  \/ ScheduleFail
  \/ QueueStart
  \/ EmitRunStarted
  \/ RunFinished
  \/ SocketEnd
  \/ \E m \in Messages : MessageArrive(m)
  \/ \E ok \in BOOLEAN : FetchSettles(ok)
  \/ QueueNext
  \/ \E id \in CheckIds : TimerExpire(id)
  \/ RejectionKills
  \/ RejectionIgnored

Spec == Init /\ [][Next]_vars

\* The event loop runs every callback that is due: run() proceeds, a settled
\* job is followed by _next, an awaited fetch settles one way or the other, an
\* armed timer fires.  Message arrival is left to the backend.
Progress ==
  \/ ConnectOk \/ ConnectFail \/ SubscribeOk \/ SubscribeFail
  \/ (\E n \in 0..NumCheckIds : ScheduleOk(n)) \/ ScheduleFail
  \/ QueueStart \/ EmitRunStarted \/ RunFinished \/ SocketEnd
  \/ (\E ok \in BOOLEAN : FetchSettles(ok))
  \/ QueueNext
  \/ RejectionKills \/ RejectionIgnored

FairSpec ==
  /\ Init /\ [][Next]_vars
  /\ WF_vars(Progress)
  /\ \A id \in CheckIds : WF_vars(TimerExpire(id))

\* ------------------------------------------------------ reading the log
Idx == 1..Len(events)
Emitted(e) == \E i \in Idx : events[i] = e
Count(e) == Cardinality({ i \in Idx : events[i] = e })
IsCheckEvent(e) ==
  e.type \in {"CHECK_INPROGRESS", "CHECK_SUCCESSFUL", "CHECK_FAILED", "CHECK_FINISHED"}
TimedOut(k) == Emitted(CHECK_FAILED(k, "timeout"))
ResultReported(k) == Emitted(CHECK_SUCCESSFUL(k)) \/ Emitted(CHECK_FAILED(k, "error"))
SuccessThenFinished(k) ==
  \E i \in Idx : /\ events[i] = CHECK_SUCCESSFUL(k)
                 /\ i < Len(events)
                 /\ events[i + 1] = CHECK_FINISHED(k)
Fetching == active.stage \notin {"idle", "settled"}

\* C1: no check gets more than one CHECK_FINISHED, and no check is reported
\* both by a result message (CHECK_SUCCESSFUL, or CHECK_FAILED from an error
\* message) and by the expiry of its timer.
C1_OneVerdictPerCheck ==
  \A k \in CheckIds :
    /\ Count(CHECK_FINISHED(k)) <= 1
    /\ ~(ResultReported(k) /\ TimedOut(k))

\* An error message for a check was handled to its end after the check had
\* been reported successful: a late message met a resolved check.
C1_Witness ==
  /\ active.stage = "settled"
  /\ active.msg.sub = "error"
  /\ Emitted(CHECK_SUCCESSFUL(active.msg.id))
  /\ Count(CHECK_FINISHED(active.msg.id)) = 1

\* C2: once run() waits for completion (connect, subscribe and scheduleChecks
\* succeeded), every dispatched check eventually has its CHECK_FINISHED and
\* RUN_FINISHED is eventually emitted.
C2_RunCompletes ==
  (pc = "await") ~>
    (Emitted(RUN_FINISHED) /\ \A k \in checks : Emitted(CHECK_FINISHED(k)))

\* C3: when an artifact fetch failed while the run-end of a check was being
\* handled, then, once that handling is over, CHECK_SUCCESSFUL directly
\* followed by CHECK_FINISHED has been emitted for the check.
C3_FetchFailureStillReports ==
  \A k \in fetchFailed :
    \/ Fetching /\ active.msg.id = k
    \/ SuccessThenFinished(k)

\* C4: every per-check event in the log has a RUN_STARTED before it.
C4_RunStartedFirst ==
  \A i \in Idx :
    IsCheckEvent(events[i]) => \E j \in 1..(i - 1) : events[j] = RUN_STARTED

\* C5: RUN_FINISHED is emitted at most once, only after a CHECK_FINISHED of
\* every dispatched check, and no per-check event follows it; the completion
\* promise is resolved only with the count equal to the number of checks.
C5_RunFinishedLast ==
  /\ Count(RUN_FINISHED) <= 1
  /\ resolved => checksSet /\ finishedCheckCount = numChecks
  /\ \A i \in Idx :
       events[i] = RUN_FINISHED =>
         /\ \A k \in checks : \E j \in 1..(i - 1) : events[j] = CHECK_FINISHED(k)
         /\ \A j \in (i + 1)..Len(events) : ~IsCheckEvent(events[j])

\* A run of at least two checks, some of them timed out and some reported by a
\* message, has emitted RUN_FINISHED.
C5_Witness ==
  /\ numChecks >= 2
  /\ Emitted(RUN_FINISHED)
  /\ \E k \in checks : TimedOut(k)
  /\ \E k \in checks : ResultReported(k)

\* C6 (its last clause): a check whose run-end message was received, that is
\* put on the work queue, while its timer was pending never gets a timeout
\* CHECK_FAILED.
C6_NoTimeoutOnceRunEndReceived ==
  \A k \in runEndInTime : ~TimedOut(k)

\* C7: a timeout CHECK_FAILED of a check is directly followed by its
\* CHECK_FINISHED, is its only terminal report, leaves no timer entry, and
\* nothing is emitted for the check afterwards.
C7_TimeoutReportedOnce ==
  \A k \in CheckIds : \A i \in Idx :
    events[i] = CHECK_FAILED(k, "timeout") =>
      /\ i < Len(events)
      /\ events[i + 1] = CHECK_FINISHED(k)
      /\ \A j \in Idx \ {i, i + 1} :
           events[j].id = k => j < i /\ events[j] = CHECK_INPROGRESS(k)
      /\ k \notin timeouts

\* A run-end for a check was handled to its end after the check timed out.
C7_Witness ==
  /\ active.stage = "settled"
  /\ active.msg.sub = "run-end"
  /\ TimedOut(active.msg.id)

\* C8: a run that took the failure path has emitted ERROR and nothing else,
\* and a run whose connection failed never called scheduleChecks.
C8_SetupFaultOnlyError ==
  /\ Emitted(ERROR) => events = << ERROR >>
  /\ (pc = "done" /\ socketClient = "null") =>
       scheduleCalls = 0 /\ events = << ERROR >>
  /\ (pc \in {"close", "done"} /\ ~Emitted(RUN_FINISHED)) => Emitted(ERROR)

\* scheduleChecks failed with messages waiting on the paused queue, and
\* run() has returned.
C8_Witness ==
  /\ pc = "done"
  /\ scheduleCalls = 1
  /\ ~checksSet
  /\ Len(queue) = MaxMessages
  /\ events = << ERROR >>

\* C9: a step in which processMessage begins for a check identifier without a
\* timer entry emits nothing and leaves the timer registry and the
\* finished-check count as they were.
C9_NoTimerNoEffect ==
  [][ (nStarted' = nStarted + 1 /\ active'.msg.id \notin timeouts) =>
        /\ events' = events
        /\ timeouts' = timeouts
        /\ armed' = armed
        /\ finishedCheckCount' = finishedCheckCount ]_vars

\* A run-start message was handled for a check that had no timer entry (it
\* had timed out, was resolved, or was never dispatched) and nothing was
\* emitted for it.
C9_Witness ==
  /\ pc = "await"
  /\ active.stage = "settled"
  /\ active.msg.sub = "run-start"
  /\ active.msg.id \notin timeouts
  /\ ~Emitted(CHECK_INPROGRESS(active.msg.id))

\* C10: a run whose dispatch returned no check emits RUN_STARTED, then
\* RUN_FINISHED, and nothing else.
C10_ZeroChecks ==
  (checksSet /\ numChecks = 0) =>
    events \in { << >>, << RUN_STARTED >>, << RUN_STARTED, RUN_FINISHED >> }

\* A run without checks has finished and every message sent to it was handled.
C10_Witness ==
  /\ checksSet /\ numChecks = 0
  /\ events = << RUN_STARTED, RUN_FINISHED >>
  /\ nStarted = MaxMessages
  /\ active = Idle

\* C11: socketClient.end() is called at most once; a run() that has returned
\* has ended the socket it opened, exactly once; and the socket is ended only
\* when the last event emitted is the final RUN_FINISHED or ERROR.
C11_SocketClosedOnce ==
  /\ endCalls <= 1
  /\ (endCalls = 1) <=> (socketClient = "ended")
  /\ pc = "done" => socketClient \in {"null", "ended"}
  /\ (pc = "done" /\ socketClient = "null") => ~onMessage /\ ~subscribed
  /\ socketClient = "ended" =>
       /\ events # << >>
       /\ events[Len(events)] \in {RUN_FINISHED, ERROR}

\* A run with checks has emitted RUN_FINISHED, ended its socket and returned.
C11_Witness ==
  /\ pc = "done"
  /\ numChecks >= 1
  /\ endCalls = 1
  /\ Emitted(RUN_FINISHED)

\* C12: scheduleChecks is called only with the message callback registered
\* and the subscription complete, and every message delivered from then on
\* is on the work queue or has been started.
C12_SubscribedBeforeDispatch ==
  /\ scheduleCalls >= 1 => onMessage /\ subscribed
  /\ scheduleCalls <= 1
  /\ nArrived = nStarted + Len(queue)

\* A message was delivered and enqueued while scheduleChecks was still awaited.
C12_Witness ==
  /\ pc = "schedule"
  /\ scheduleCalls = 1
  /\ Len(queue) >= 1

\* C13: processMessage never begins while the queue is paused; the queue is
\* started only with this.checks set, a timer armed for every check and the
\* completion listener registered; and the tracker's count equals the number
\* of CHECK_FINISHED events in the log.
C13_SetupBeforeProcessing ==
  /\ isPaused => nStarted = 0 /\ active = Idle /\ events \in {<< >>, << ERROR >>}
  /\ ~isPaused => checksSet /\ (listening \/ numChecks = 0)
  /\ pc = "queueStart" =>
       /\ isPaused /\ checksSet
       /\ timeouts = checks /\ armed = checks
       /\ listening \/ numChecks = 0
  /\ finishedCheckCount =
       Cardinality({ i \in Idx : events[i].type = "CHECK_FINISHED" })

\* Messages arrived before the queue was started, waited, and were handled
\* after it: one of them finished a check.
C13_Witness ==
  /\ pc = "emitStarted"
  /\ nArrived = MaxMessages
  /\ nStarted = 1
  /\ finishedCheckCount = 1

Terminal(k) ==
  \E i \in Idx : /\ events[i].id = k
                 /\ events[i].type \in {"CHECK_SUCCESSFUL", "CHECK_FAILED", "CHECK_FINISHED"}
\* processMessage has taken up a run-end of check k: it is suspended on one of
\* its fetches, or it ended on a failed one.
RunEndTaken(k) ==
  \/ Fetching /\ active.msg.id = k
  \/ k \in fetchFailed

\* C14 as stated: once the queue is started, check k has a timer entry exactly
\* when no terminal event has been emitted for k.
C14_EntryIffNoTerminalEvent ==
  pc \in {"emitStarted", "await"} =>
    \A k \in checks : (k \in timeouts) <=> ~Terminal(k)

\* C14 as amended: check k has a timer entry (and a live timer) exactly when it
\* was dispatched, no terminal event has been emitted for it and processMessage
\* has not taken up a run-end for it.
C14_EntryIffPending ==
  /\ armed = timeouts
  /\ \A k \in CheckIds :
       (k \in timeouts) <=> (k \in checks /\ ~Terminal(k) /\ ~RunEndTaken(k))

\* The run-end of a check is suspended on a fetch while another check still
\* has its entry: the first has neither an entry nor a terminal event.
C14_Witness ==
  /\ Fetching
  /\ active.msg.id \in checks
  /\ ~Terminal(active.msg.id)
  /\ active.msg.id \notin timeouts
  /\ timeouts # {}

\* A step in which processMessage begins for a message of subtopic `sub`
\* whose check has a timer entry.
BeginsPending(sub) ==
  /\ nStarted' = nStarted + 1
  /\ active'.msg.sub = sub
  /\ active'.msg.id \in timeouts

\* C15: handling a run-start for a pending check appends CHECK_INPROGRESS and
\* nothing else, and leaves the timer registry, the live timers and the
\* completion tracker as they were; so a check that has only been reported in
\* progress still has its timer running.
C15_RunStartKeepsTimer ==
  /\ [][ BeginsPending("run-start") =>
           /\ events' = Append(events, CHECK_INPROGRESS(active'.msg.id))
           /\ timeouts' = timeouts
           /\ armed' = armed
           /\ finishedCheckCount' = finishedCheckCount
           /\ resolved' = resolved ]_vars
  /\ [](\A k \in CheckIds :
          (Emitted(CHECK_INPROGRESS(k)) /\ ~Terminal(k) /\ ~RunEndTaken(k)) =>
            k \in armed /\ k \in timeouts)

\* A check got two run-start messages and nothing else, and then timed out.
C15_Witness ==
  \E k \in CheckIds :
    /\ Count(CHECK_INPROGRESS(k)) = MaxMessages
    /\ Len(events) >= 2
    /\ events[Len(events) - 1] = CHECK_FAILED(k, "timeout")
    /\ events[Len(events)] = CHECK_FINISHED(k)

IsResultEvent(e) == e.type \in {"CHECK_SUCCESSFUL", "CHECK_FAILED"}

\* C16: every CHECK_FINISHED(k) in the log directly follows a CHECK_SUCCESSFUL
\* or CHECK_FAILED of the same check, which is the only such event of k; and
\* handling an error message for a pending check cancels its timer and
\* appends CHECK_FAILED then CHECK_FINISHED.
C16_FinishedFollowsResult ==
  /\ [](\A i \in Idx :
          events[i].type = "CHECK_FINISHED" =>
            /\ i > 1
            /\ IsResultEvent(events[i - 1])
            /\ events[i - 1].id = events[i].id
            /\ Cardinality({ j \in Idx : /\ IsResultEvent(events[j])
                                         /\ events[j].id = events[i].id }) = 1)
  /\ [][ BeginsPending("error") =>
           /\ events' = events \o << CHECK_FAILED(active'.msg.id, "error"),
                                     CHECK_FINISHED(active'.msg.id) >>
           /\ active'.msg.id \notin timeouts'
           /\ active'.msg.id \notin armed' ]_vars

\* One check was failed by an error message and another was reported
\* successful after an artifact fetch.
C16_Witness ==
  /\ \E k \in CheckIds : Emitted(CHECK_FAILED(k, "error")) /\ Emitted(CHECK_FINISHED(k))
  /\ \E k \in CheckIds : SuccessThenFinished(k) /\ k \in fetchFailed

\* ------------------------------------------- a listener of the caller throws
\* EventEmitter.emit calls the listeners synchronously and lets what they throw
\* through.  The two emits of run() sit inside its try block: a throwing
\* listener of RUN_STARTED (line 82) or RUN_FINISHED (line 85) sends run() to
\* its catch block with the timers armed and the queue started.
EmitRunStartedThrows ==
  /\ pc = "emitStarted" /\ ~crashed
  /\ pc' = Finally(socketClient)
  /\ Apply(RunCatch(Emit(Cur, RUN_STARTED)))
  /\ UNCHANGED << socketClient, endCalls, onMessage, subscribed, scheduleCalls,
                  checksSet, checks, verbose, queue, isPaused, active, listening,
                  numChecks, nArrived, nStarted, unhandled, crashed, fetchFailed,
                  runEndInTime >>

RunFinishedThrows ==
  /\ pc = "await" /\ resolved /\ ~crashed
  /\ pc' = Finally(socketClient)
  /\ Apply(RunCatch(Emit(Cur, RUN_FINISHED)))
  /\ UNCHANGED << socketClient, endCalls, onMessage, subscribed, scheduleCalls,
                  checksSet, checks, verbose, queue, isPaused, active, listening,
                  numChecks, nArrived, nStarted, unhandled, crashed, fetchFailed,
                  runEndInTime >>

FaultNext ==
  \/ Next
  \/ EmitRunStartedThrows
  \/ RunFinishedThrows

FaultSpec == Init /\ [][FaultNext]_vars

\* C17: once ERROR is emitted no timer is left, and ERROR is the last event
\* of the run.
C17_NothingAfterError ==
  Emitted(ERROR) =>
    /\ timeouts = {} /\ armed = {}
    /\ events[Len(events)] = ERROR

\* C18: processMessage begins only when no other invocation is suspended on a
\* fetch, and for the oldest message not yet begun; while an invocation is
\* suspended, the only per-check events emitted are timer expiries and, when
\* its fetch settles, its own CHECK_SUCCESSFUL and CHECK_FINISHED.
C18_HandlingSerialized ==
  /\ [][ nStarted' = nStarted + 1 =>
           /\ ~Fetching
           /\ active'.msg.seq = nStarted + 1 ]_vars
  /\ [][ Fetching =>
           \A i \in (Len(events) + 1)..Len(events') :
             \/ ~IsCheckEvent(events'[i])
             \/ events'[i].cause = "timeout"
             \/ events'[i].type = "CHECK_FINISHED" /\ events'[i - 1].id = events'[i].id
             \/ events'[i] = CHECK_SUCCESSFUL(active.msg.id) ]_vars

\* A message waits on the started queue while the handling of an older one is
\* suspended on a fetch.
C18_Witness ==
  /\ ~isPaused
  /\ Fetching
  /\ Len(queue) >= 1
  /\ queue[1].seq = active.msg.seq + 1

\* C19: no CHECK_INPROGRESS(k) comes after a terminal event of k in the log.
C19_NoProgressAfterTerminal ==
  \A i \in Idx : \A j \in Idx :
    (/\ i < j
     /\ events[j].type = "CHECK_INPROGRESS"
     /\ events[i].id = events[j].id)
      => events[i].type = "CHECK_INPROGRESS"

\* A run-start of a check was handled to its end after the check had timed
\* out or been reported by a message.
C19_Witness ==
  /\ active.stage = "settled"
  /\ active.msg.sub = "run-start"
  /\ Terminal(active.msg.id)

====
